---- MODULE Spec2Model ----
(***************************************************************************)
(* Model of groq_wrapper_server.py: one exchange of the chat_completions   *)
(* endpoint.  The inbound JSON body is rewritten by                        *)
(* _inject_json_schema_prompt, forwarded upstream, and the upstream answer *)
(* is either relayed chunk by chunk (stream) or post-processed (sync).     *)
(*                                                                         *)
(* JSON objects are functions from the keys they hold to values, so that   *)
(* "key in dict", dict.get, dict.pop and dict.setdefault are modelled on   *)
(* the domain.  Where the values under different keys have different       *)
(* shapes the object is a record of slots [has, v] instead.                *)
(***************************************************************************)
EXTENDS Integers, Sequences, FiniteSets, TLC

VARIABLES
    pc,         \* position of the handler / of the relay generator
    inbound,    \* the body as request.json() returned it (never mutated)
    body,       \* the handler's local `body`, mutated in place
    stream,     \* the handler's local `stream`
    forwarded,  \* slot: the json= body handed to client.post / client.stream
    resp,       \* what upstream answered on the sync path
    reply,      \* what the caller gets back from chat_completions
    received,   \* chunks upstream.aiter_bytes() has delivered to relay()
    emitted,    \* chunks relay() has yielded to the caller
    reconciled, \* history: the post-processing of lines 127-138 has run
    timed_out   \* history: the upstream call hit the client's timeout

vars == <<pc, inbound, body, stream, forwarded, resp, reply,
          received, emitted, reconciled, timed_out>>

\* ---------------------------------------------------------------- bounds
MaxMsgs == 2
MaxContentLen == 3
MaxBodyLen == 2
MaxChunks == 3

\* ---------------------------------------------------------------- helpers
Some(x) == [has |-> TRUE, v |-> x]
Absent(dflt) == [has |-> FALSE, v |-> dflt]

EmptyDict == [k \in {} |-> ""]

SeqsUpTo(S, n) == UNION {[1..m -> S] : m \in 0..n}

\* ---------------------------------------------------------------- JSON values
\* A value stored under a key of response_format: a string or an object.
\* Objects keep their pairs in insertion order, as a Python dict does.
JStr(s) == [t |-> "str", s |-> s, o |-> <<>>]
JObj(pairs) == [t |-> "obj", s |-> "", o |-> pairs]

\* The value of the response_format key itself.
RFNull == [t |-> "null", s |-> "", d |-> EmptyDict]
RFStr(s) == [t |-> "str", s |-> s, d |-> EmptyDict]
RFDict(d) == [t |-> "dict", s |-> "", d |-> d]
NoRF == RFNull

\* A slip for Truthy: testing `rf is not None` instead of `not rf`.
Truthy_NotNone(rf) == rf.t # "null"

\* Python truthiness of the popped value (None when the key is absent).
Truthy(rf) ==
    CASE rf.t = "null" -> FALSE
      [] rf.t = "str" -> rf.s # ""
      [] rf.t = "dict" -> DOMAIN rf.d # {}

\* json.dumps(value, separators=(",", ":")) on the values above.
RECURSIVE DumpPairs(_)
DumpPairs(pairs) ==
    IF pairs = <<>> THEN ""
    ELSE "\"" \o Head(pairs)[1] \o "\":\"" \o Head(pairs)[2] \o "\""
         \o (IF Tail(pairs) = <<>> THEN "" ELSE ",")
         \o DumpPairs(Tail(pairs))

json_dumps(val) ==
    IF val.t = "str" THEN "\"" \o val.s \o "\""
    ELSE "{" \o DumpPairs(val.o) \o "}"

\* ---------------------------------------------------------------- request
SCHEMA_PROMPT ==
    "You MUST reply with pure JSON **only** (no markdown). "
    \o "If you cannot, reply with {\"status\":\"error\",\"message\":\"Unable to comply\"}."

SchemaLead == " The response MUST validate against this schema:\n"

SystemMessage(instruction) == [role |-> "system", content |-> instruction]

\* Outcome of a call: it returned, or it raised exc.
Returned(payload) == [raised |-> FALSE, exc |-> "", payload |-> payload]
Raised(exc, payload) == [raised |-> TRUE, exc |-> exc, payload |-> payload]

\* A slip for PopResponseFormat: payload.get(...) leaves the key in place.
PopResponseFormat_Kept(payload) == payload

\* payload.pop("response_format", None)
PopResponseFormat(payload) == [payload EXCEPT !.response_format = Absent(NoRF)]

\* The branch condition of line 43.
IsSchemaType(rf) ==
    /\ "type" \in DOMAIN rf.d
    /\ rf.d["type"] = JStr("schemajson_")

\* The key line 45 reads the schema from.
SchemaKey == "json_schema"

\* A slip for InjectWithMessage: the instruction is appended, not prepended.
InjectWithMessage_Appended(popped, instruction) ==
    IF ~popped.messages.has
    THEN Raised("KeyError", popped)
    ELSE Returned([popped EXCEPT !.messages =
                     Some(popped.messages.v \o <<SystemMessage(instruction)>>)])

\* Line 52: the system message goes in front of payload["messages"].
InjectWithMessage(popped, instruction) ==
    IF ~popped.messages.has
    THEN Raised("KeyError", popped)
    ELSE Returned([popped EXCEPT !.messages =
                     Some(<<SystemMessage(instruction)>> \o popped.messages.v)])

\* _inject_json_schema_prompt, as an outcome with the mutated payload.
inject_json_schema_prompt(payload) ==
    LET rf == IF payload.response_format.has THEN payload.response_format.v ELSE RFNull
        popped == PopResponseFormat(payload)
    IN  IF ~Truthy(rf) THEN Returned(popped)
        ELSE IF rf.t # "dict" THEN Raised("AttributeError", popped)
        ELSE IF IsSchemaType(rf)
        THEN IF SchemaKey \notin DOMAIN rf.d
             THEN Raised("KeyError", popped)
             ELSE InjectWithMessage(popped,
                      SCHEMA_PROMPT \o SchemaLead \o json_dumps(rf.d[SchemaKey]))
        ELSE InjectWithMessage(popped, SCHEMA_PROMPT)

\* bool(body.get("stream", False)) on the JSON literals true / false / null.
StreamFlag(b) == b.stream.has /\ b.stream.v = "true"

\* ---------------------------------------------------------------- inputs
MsgPool == {[role |-> "user", content |-> "hi"],
            [role |-> "system", content |-> "be brief"]}

Schemas == {JObj(<<>>), JObj(<<<<"type", "object">>>>),
            JObj(<<<<"type", "object">>, <<"title", "T">>>>)}

TypeTags == {"json_object", "json_schema", "schemajson_", "text"}

RFDicts ==
    {EmptyDict}
    \cup {[k \in {"type"} |-> JStr(ty)] : ty \in TypeTags}
    \cup {[k \in {"type", key} |-> IF k = "type" THEN JStr(ty) ELSE sch] :
            ty \in {"json_schema", "schemajson_"},
            key \in {"schema", "json_schema"},
            sch \in Schemas}

RFSlots ==
    {Absent(NoRF), Some(RFNull), Some(RFStr("json_object"))}
    \cup {Some(RFDict(d)) : d \in RFDicts}

Requests ==
    [response_format : RFSlots,
     messages : {Absent(<<>>)} \cup {Some(m) : m \in SeqsUpTo(MsgPool, MaxMsgs)},
     stream : {Absent(""), Some("true"), Some("false")},
     model : {Absent(""), Some("llama3")}]

\* ---------------------------------------------------------------- reply side
\* Assistant text is a sequence of lexemes: an opening brace, a closing
\* brace, one well-formed member "a":1, and a run of other characters.
LBRACE == "{"
RBRACE == "}"
MEMBER == "\"a\":1"
TEXT == "text"
Lexemes == {LBRACE, RBRACE, MEMBER, TEXT}

\* A JSON value stored under additional_kwargs: null or an object.
JNull == [null |-> TRUE, obj |-> EmptyDict]
JDict(f) == [null |-> FALSE, obj |-> f]

\* Index of the first lexeme equal to x at or after position i, 0 if none.
RECURSIVE FirstFrom(_, _, _)
FirstFrom(blob, x, i) ==
    IF i > Len(blob) THEN 0
    ELSE IF blob[i] = x THEN i
    ELSE FirstFrom(blob, x, i + 1)

\* _JSON_RE.search(blob): r"\{.*?\}" with re.S matches from the first "{"
\* to the first "}" after it.  <<>> stands for "no match".
JsonReSearch(blob) ==
    LET open == FirstFrom(blob, LBRACE, 1)
        close == IF open = 0 THEN 0 ELSE FirstFrom(blob, RBRACE, open + 1)
    IN  IF close = 0 THEN <<>> ELSE SubSeq(blob, open, close)

\* json.loads on a matched span: the members between the braces must form
\* an object body; anything else is a JSONDecodeError.
json_loads(span) ==
    LET inner == SubSeq(span, 2, Len(span) - 1)
    IN  IF inner = <<>> THEN [ok |-> TRUE, value |-> JDict(EmptyDict)]
        ELSE IF inner = <<MEMBER>> THEN [ok |-> TRUE, value |-> JDict([k \in {"a"} |-> "1"])]
        ELSE [ok |-> FALSE, value |-> JNull]

extract_first_json(blob) ==
    LET match == JsonReSearch(blob)
    IN  IF match = <<>> THEN JNull
        ELSE IF json_loads(match).ok THEN json_loads(match).value
        ELSE JNull

\* choices[i].message.content: the key may be missing, null or a string.
NoContent == [k |-> "absent", text |-> <<>>]
NullContent == [k |-> "null", text |-> <<>>]
StrContent(t) == [k |-> "str", text |-> t]

EmptyMessage ==
    [role |-> Absent(""), content |-> NoContent, tool_calls |-> Absent(""),
     function_call |-> Absent(""), additional_kwargs |-> Absent(EmptyDict)]

\* _unpack_content: what the assistant returned, by precedence.
UnpackStr(t) == [k |-> "str", text |-> t, other |-> ""]
UnpackOther(o) == [k |-> "other", text |-> <<>>, other |-> o]
UnpackNone == [k |-> "none", text |-> <<>>, other |-> ""]

unpack_content(choice) ==
    LET msg == IF choice.message.has THEN choice.message.v ELSE EmptyMessage
    IN  IF msg.content.k # "absent"
        THEN (IF msg.content.k = "str" THEN UnpackStr(msg.content.text) ELSE UnpackNone)
        ELSE IF msg.tool_calls.has THEN UnpackOther(msg.tool_calls.v)
        ELSE IF msg.function_call.has THEN UnpackOther(msg.function_call.v)
        ELSE UnpackNone

\* The fixed refusal object of line 134.
RefusalObject ==
    JDict([status |-> "error", message |-> "LLM did not return standalone JSON"])

\* Line 133 reads response_format from the handler's body.
Refusal(b, parsed) ==
    IF b.response_format.has /\ Truthy(b.response_format.v) /\ parsed.null
    THEN RefusalObject
    ELSE JNull

\* A slip for DictUpdate: the map is assigned, not updated.
DictUpdate_Replace(d, upd) == upd

\* dict.update on additional_kwargs.
DictUpdate(d, upd) ==
    [k \in DOMAIN d \cup DOMAIN upd |-> IF k \in DOMAIN upd THEN upd[k] ELSE d[k]]

\* Lines 137-138 on choices[0].
Augment(choice0, parsed, refusal) ==
    LET msg == IF choice0.message.has THEN choice0.message.v ELSE EmptyMessage
        ak == IF msg.additional_kwargs.has THEN msg.additional_kwargs.v ELSE EmptyDict
        upd == [parsed |-> parsed, refusal |-> refusal]
    IN  [choice0 EXCEPT !.message =
            Some([msg EXCEPT !.additional_kwargs = Some(DictUpdate(ak, upd))])]

\* Lines 127-140 on the parsed upstream reply.
Reconcile(b, data) ==
    LET choice0 == data.choices[1]
        raw_content == unpack_content(choice0)
        parsed == IF raw_content.k = "str"
                  THEN extract_first_json(raw_content.text)
                  ELSE JNull
        refusal == Refusal(b, parsed)
    IN  [data EXCEPT !.choices[1] = Augment(choice0, parsed, refusal)]

\* detail.decode(): UTF-8 over one- and two-byte sequences.  A lead byte
\* 0xC2..0xDF takes one continuation byte 0x80..0xBF; a lone continuation
\* byte or a truncated sequence is a UnicodeDecodeError.
RECURSIVE Utf8Decode(_)
Utf8Decode(bytes) ==
    IF bytes = <<>> THEN [ok |-> TRUE, text |-> <<>>]
    ELSE IF Head(bytes) < 128
    THEN LET rest == Utf8Decode(Tail(bytes))
         IN  [ok |-> rest.ok, text |-> IF rest.ok THEN <<Head(bytes)>> \o rest.text ELSE <<>>]
    ELSE IF /\ Head(bytes) >= 194 /\ Head(bytes) <= 223
            /\ Len(bytes) >= 2 /\ bytes[2] >= 128 /\ bytes[2] <= 191
    THEN LET rest == Utf8Decode(Tail(Tail(bytes)))
             cp == (Head(bytes) - 192) * 64 + (bytes[2] - 128)
         IN  [ok |-> rest.ok, text |-> IF rest.ok THEN <<cp>> \o rest.text ELSE <<>>]
    ELSE [ok |-> FALSE, text |-> <<>>]

OK == 200

\* ---------------------------------------------------------------- replies
NoData == [id |-> "", choices |-> <<>>]

NoReply == [kind |-> "none", status_code |-> 0, detail |-> <<>>,
            content |-> NoData, exc |-> ""]
JSONResponse(data, status) ==
    [kind |-> "json", status_code |-> status, detail |-> <<>>,
     content |-> data, exc |-> ""]
HTTPException(status, detail) ==
    [kind |-> "http_exception", status_code |-> status, detail |-> detail,
     content |-> NoData, exc |-> "HTTPException"]
\* An exception the handler does not catch: the handler sets no status.
Unhandled(exc) ==
    [kind |-> "unhandled", status_code |-> 0, detail |-> <<>>,
     content |-> NoData, exc |-> exc]
StreamingResponse ==
    [kind |-> "stream", status_code |-> OK, detail |-> <<>>,
     content |-> NoData, exc |-> ""]

\* What upstream answered to client.post.
NoResp == [kind |-> "none", status_code |-> 0, raw |-> <<>>, is_json |-> FALSE,
           data |-> NoData]
JsonResp(status, data) ==
    [kind |-> "http", status_code |-> status, raw |-> <<>>, is_json |-> TRUE,
     data |-> data]
RawResp(status, bytes) ==
    [kind |-> "http", status_code |-> status, raw |-> bytes, is_json |-> FALSE,
     data |-> NoData]

\* ---------------------------------------------------------------- upstream inputs
Contents == SeqsUpTo(Lexemes, MaxContentLen)

OldKwargs ==
    {Absent(EmptyDict),
     Some(EmptyDict),
     Some([k \in {"extra"} |-> JDict([k2 \in {"x"} |-> "y"])]),
     Some([k \in {"extra", "parsed", "refusal"} |->
             IF k = "parsed" THEN JDict([k2 \in {"old"} |-> "1"]) ELSE JNull])}

TextMessages ==
    {[EmptyMessage EXCEPT !.role = Some("assistant"), !.content = StrContent(t)] :
        t \in Contents}

ShapedMessages ==
    {[role |-> Some("assistant"), content |-> c, tool_calls |-> tc,
      function_call |-> fc, additional_kwargs |-> ak] :
        c \in {NoContent, NullContent, StrContent(<<LBRACE, MEMBER, RBRACE>>),
               StrContent(<<TEXT>>)},
        tc \in {Absent(""), Some("[call]")},
        fc \in {Absent(""), Some("{fn}")},
        ak \in OldKwargs}

Choice(msgSlot) == [finish_reason |-> "stop", message |-> msgSlot]

SecondChoice == Choice(Some([EmptyMessage EXCEPT !.content = StrContent(<<TEXT>>)]))

ReplyData ==
    {[id |-> "cmpl-1", choices |-> <<Choice(Some(m))>>] : m \in TextMessages}
    \cup {[id |-> "cmpl-1", choices |-> <<Choice(Some(m))>> \o more] :
            m \in ShapedMessages, more \in {<<>>, <<SecondChoice>>}}
    \cup {[id |-> "cmpl-1", choices |-> <<Choice(Absent(EmptyMessage))>>],
          [id |-> "cmpl-1", choices |-> <<>>]}

ErrorStatuses == {404, 503}
Bytes == {97, 195, 169}
ErrorBodies == SeqsUpTo(Bytes, MaxBodyLen)

UpstreamAnswers ==
    {JsonResp(OK, d) : d \in ReplyData}
    \cup {RawResp(OK, <<97>>)}
    \cup {RawResp(st, b) : st \in ErrorStatuses, b \in ErrorBodies}

Chunks == {"data: a", "data: b"}

\* ---------------------------------------------------------------- behaviour
Init ==
    /\ pc = "start"
    /\ inbound \in Requests
    /\ body = inbound
    /\ stream = FALSE
    /\ forwarded = Absent(inbound)
    /\ resp = NoResp
    /\ reply = NoReply
    /\ received = <<>>
    /\ emitted = <<>>
    /\ reconciled = FALSE
    /\ timed_out = FALSE

\* Lines 94-112: read the body, rewrite it, and dispatch.  On the sync path
\* the rewritten body is posted upstream; on the stream path the
\* StreamingResponse is returned and relay() has not started yet.
HandleRequest ==
    /\ pc = "start"
    /\ LET out == inject_json_schema_prompt(body)
           flag == StreamFlag(body)
       IN  /\ stream' = flag
           /\ body' = out.payload
           /\ IF out.raised
              THEN /\ pc' = "done"
                   /\ reply' = Unhandled(out.exc)
                   /\ UNCHANGED forwarded
              ELSE IF flag
              THEN /\ pc' = "stream_ready"
                   /\ reply' = StreamingResponse
                   /\ UNCHANGED forwarded
              ELSE /\ pc' = "awaiting_upstream"
                   /\ forwarded' = Some(out.payload)
                   /\ UNCHANGED reply
    /\ UNCHANGED <<inbound, resp, received, emitted, reconciled, timed_out>>

\* Lines 114-116: a status other than 200 is raised as an HTTPException.
RaiseForStatus(r) ==
    LET detail == Utf8Decode(r.raw)
    IN  IF detail.ok THEN HTTPException(r.status_code, detail.text)
        ELSE Unhandled("UnicodeDecodeError")

\* Lines 112-140: upstream answers the post.
UpstreamAnswer(r) ==
    /\ pc = "awaiting_upstream"
    /\ resp' = r
    /\ pc' = "done"
    /\ IF r.status_code # OK
       THEN /\ reply' = RaiseForStatus(r)
            /\ UNCHANGED reconciled
       ELSE IF stream
       THEN /\ reply' = StreamingResponse
            /\ UNCHANGED reconciled
       ELSE IF ~r.is_json
       THEN /\ reply' = Unhandled("JSONDecodeError")
            /\ UNCHANGED reconciled
       ELSE IF r.data.choices = <<>>
       THEN /\ reply' = Unhandled("IndexError")
            /\ UNCHANGED reconciled
       ELSE /\ reply' = JSONResponse(Reconcile(body, r.data), OK)
            /\ reconciled' = TRUE
    /\ UNCHANGED <<inbound, body, stream, forwarded, received, emitted, timed_out>>

\* Line 112: the client's timeout expires; httpx raises and nothing catches it.
UpstreamTimeout ==
    /\ pc = "awaiting_upstream"
    /\ timed_out' = TRUE
    /\ reply' = Unhandled("ReadTimeout")
    /\ pc' = "done"
    /\ UNCHANGED <<inbound, body, stream, forwarded, resp, received, emitted, reconciled>>

\* Line 106: the server starts iterating relay(), which opens the upstream call.
RelayOpen ==
    /\ pc = "stream_ready"
    /\ forwarded' = Some(body)
    /\ pc' = "relay_wait"
    /\ UNCHANGED <<inbound, body, stream, resp, reply, received, emitted, reconciled, timed_out>>

\* Line 107: aiter_bytes() delivers the next chunk.
RelayReceive(chunk) ==
    /\ pc = "relay_wait"
    /\ Len(received) < MaxChunks
    /\ received' = Append(received, chunk)
    /\ pc' = "relay_yield"
    /\ UNCHANGED <<inbound, body, stream, forwarded, resp, reply, emitted, reconciled, timed_out>>

\* A slip for Yielded: the loop variable is not the one yielded.
Yielded_Stale(chunks, out) == Append(out, chunks[1])

\* What line 108 yields for the chunk just delivered.
Yielded(chunks, out) == Append(out, chunks[Len(chunks)])

\* Line 108: yield chunk.
RelayYield ==
    /\ pc = "relay_yield"
    /\ emitted' = Yielded(received, emitted)
    /\ pc' = "relay_wait"
    /\ UNCHANGED <<inbound, body, stream, forwarded, resp, reply, received, reconciled, timed_out>>

\* Line 107: upstream closes the stream and the generator returns.
RelayEnd ==
    /\ pc = "relay_wait"
    /\ pc' = "done"
    /\ UNCHANGED <<inbound, body, stream, forwarded, resp, reply, received, emitted, reconciled, timed_out>>

\* Lines 106-107: the timeout expires while waiting on upstream; the
\* generator dies after the response has started.
RelayTimeout ==
    /\ pc = "relay_wait"
    /\ timed_out' = TRUE
    /\ pc' = "aborted"
    /\ UNCHANGED <<inbound, body, stream, forwarded, resp, reply, received, emitted, reconciled>>

Next ==
    \/ HandleRequest
    \/ \E r \in UpstreamAnswers : UpstreamAnswer(r)
    \/ UpstreamTimeout
    \/ RelayOpen
    \/ \E c \in Chunks : RelayReceive(c)
    \/ RelayYield
    \/ RelayEnd
    \/ RelayTimeout

Spec == Init /\ [][Next]_vars

\* ---------------------------------------------------------------- properties
IsPrefix(a, b) == Len(a) <= Len(b) /\ SubSeq(b, 1, Len(a)) = a

InboundRF == IF inbound.response_format.has THEN inbound.response_format.v ELSE RFNull

\* The inbound response_format is missing, null, "" or {}.
FalsyFormat ==
    \/ ~inbound.response_format.has
    \/ inbound.response_format.v \in {RFNull, RFStr(""), RFDict(EmptyDict)}

RequestedFormat == ~FalsyFormat

RFTypeIs(tag) ==
    /\ InboundRF.t = "dict"
    /\ "type" \in DOMAIN InboundRF.d
    /\ InboundRF.d["type"] = JStr(tag)

\* The sync exchange ended with a 200 answer whose first choice carries text.
SyncTextAnswer ==
    /\ pc = "done"
    /\ ~StreamFlag(inbound)
    /\ resp.kind = "http" /\ resp.status_code = OK /\ resp.is_json
    /\ resp.data.choices # <<>>
    /\ resp.data.choices[1].message.has
    /\ resp.data.choices[1].message.v.content.k = "str"

AnswerText == resp.data.choices[1].message.v.content.text

ReplyKwargs == reply.content.choices[1].message.v.additional_kwargs.v

\* C1: on the sync path, a request that carried a truthy response_format and
\* a 200 answer whose text yields no JSON object produce a reply with
\* additional_kwargs.parsed = null and additional_kwargs.refusal = the fixed
\* error object.
C1_RefusalWhenNoJson ==
    (RequestedFormat /\ SyncTextAnswer /\ extract_first_json(AnswerText).null)
        => /\ reply.kind = "json"
           /\ ReplyKwargs["parsed"] = JNull
           /\ ReplyKwargs["refusal"] = RefusalObject

\* The schema a schema-bearing response_format supplies.
SuppliedSchema ==
    IF "schema" \in DOMAIN InboundRF.d THEN InboundRF.d["schema"]
    ELSE InboundRF.d["json_schema"]

SchemaBearing ==
    /\ RFTypeIs("json_schema")
    /\ DOMAIN InboundRF.d \cap {"schema", "json_schema"} # {}

\* C2: for a response_format of type "json_schema" with a schema, the first
\* forwarded message is the system message made of the preamble, the line
\* "The response MUST validate against this schema:" and the compact JSON
\* serialization of the schema.
C2_SchemaInInstruction ==
    (forwarded.has /\ SchemaBearing)
        => /\ forwarded.v.messages.has
           /\ forwarded.v.messages.v # <<>>
           /\ forwarded.v.messages.v[1] =
                SystemMessage(SCHEMA_PROMPT \o SchemaLead \o json_dumps(SuppliedSchema))

JsonObjectRequest ==
    inbound.response_format = Some(RFDict([k \in {"type"} |-> JStr("json_object")]))

\* C3: for response_format = {type: "json_object"}, the forwarded messages
\* are exactly one system message holding the bare preamble followed by the
\* caller's messages in their order.
C3_JsonObjectPrepends ==
    (forwarded.has /\ JsonObjectRequest)
        => /\ inbound.messages.has
           /\ forwarded.v.messages =
                Some(<<SystemMessage(SCHEMA_PROMPT)>> \o inbound.messages.v)

C3_Witness ==
    /\ forwarded.has /\ JsonObjectRequest
    /\ Len(inbound.messages.v) = 2
    /\ inbound.messages.v[1] # inbound.messages.v[2]

\* C4: when response_format is absent or falsy, the forwarded body is the
\* inbound body with the response_format key removed and nothing else
\* changed: no message is injected.
C4_NoFormatUnchanged ==
    (forwarded.has /\ ~RequestedFormat)
        => forwarded.v = [inbound EXCEPT !.response_format = Absent(NoRF)]

C4_Witness ==
    /\ forwarded.has
    /\ inbound.response_format = Some(RFDict(EmptyDict))
    /\ inbound.messages.has /\ Len(inbound.messages.v) = 2

\* C5: the body sent upstream never holds a response_format key, and the
\* keys other than response_format and messages keep their inbound values,
\* streaming or not.
C5_FormatStrippedRestKept ==
    forwarded.has
        => /\ ~forwarded.v.response_format.has
           /\ forwarded.v.stream = inbound.stream
           /\ forwarded.v.model = inbound.model

C5_Witness ==
    /\ forwarded.has
    /\ RequestedFormat
    /\ inbound.stream = Some("true")
    /\ inbound.model.has

\* C6: when stream = true was requested, the chunks emitted are always a
\* prefix of the chunks received, lag by at most the chunk in hand, equal
\* them once the relay has completed, and the reply is never post-processed.
C6_StreamRelayedUnchanged ==
    StreamFlag(inbound)
        => /\ IsPrefix(emitted, received)
           /\ Len(received) - Len(emitted) <= 1
           /\ (pc \in {"relay_wait", "done", "aborted"} => emitted = received)
           /\ ~reconciled
           /\ reply.kind \in {"none", "stream", "unhandled"}

C6_Witness ==
    /\ StreamFlag(inbound)
    /\ pc = "done"
    /\ Len(emitted) >= 2
    /\ emitted[1] # emitted[2]

\* C7: on the sync path, an upstream status other than 200 reaches the
\* caller as an error with that status and the upstream body as detail, and
\* the answer is never reconciled or returned as a success.
C7_ErrorStatusPropagated ==
    (pc = "done" /\ resp.kind = "http" /\ resp.status_code # OK)
        => /\ reply.kind = "http_exception"
           /\ reply.status_code = resp.status_code
           /\ reply.detail = Utf8Decode(resp.raw).text
           /\ ~reconciled

\* A schema-variant response_format whose schema is missing or sits under
\* another key than "schema".
MalformedSchemaFormat ==
    /\ RFTypeIs("json_schema")
    /\ "schema" \notin DOMAIN InboundRF.d

\* C8: a request with messages whose schema-variant response_format lacks
\* its schema is rejected as a client error: nothing is forwarded upstream
\* and the failure is not an unhandled exception.
C8_MalformedFormatRejected ==
    (MalformedSchemaFormat /\ inbound.messages.has)
        => /\ ~forwarded.has
           /\ (pc = "done" =>
                 /\ reply.kind = "http_exception"
                 /\ reply.status_code \in 400..499)

\* C9: when the upstream call times out on the sync path, the caller gets
\* an upstream-timeout error with a gateway-timeout status, not the
\* response of an unhandled exception.
C9_TimeoutSurfaced ==
    (pc = "done" /\ timed_out /\ ~stream)
        => /\ reply.kind = "http_exception"
           /\ reply.status_code = 504

OldMessage(choice) == IF choice.message.has THEN choice.message.v ELSE EmptyMessage

OldKwargsOf(choice) ==
    IF OldMessage(choice).additional_kwargs.has
    THEN OldMessage(choice).additional_kwargs.v
    ELSE EmptyDict

\* C10: the augmented reply differs from the upstream reply only by the
\* parsed and refusal entries under choices[0].message.additional_kwargs:
\* top-level fields, later choices, other keys of choices[0], of its message
\* and of an existing additional_kwargs keep their values, and the nesting
\* is created when absent.
C10_AugmentationFrame ==
    reply.kind = "json"
        => LET old == resp.data
               new == reply.content
               oc == old.choices[1]
               nc == new.choices[1]
           IN  /\ [new EXCEPT !.choices = old.choices] = old
               /\ Len(new.choices) = Len(old.choices)
               /\ \A i \in 2..Len(old.choices) : new.choices[i] = old.choices[i]
               /\ [nc EXCEPT !.message = oc.message] = oc
               /\ nc.message.has
               /\ [nc.message.v EXCEPT !.additional_kwargs =
                       OldMessage(oc).additional_kwargs] = OldMessage(oc)
               /\ nc.message.v.additional_kwargs.has
               /\ DOMAIN nc.message.v.additional_kwargs.v =
                       DOMAIN OldKwargsOf(oc) \cup {"parsed", "refusal"}
               /\ \A k \in DOMAIN OldKwargsOf(oc) \ {"parsed", "refusal"} :
                       nc.message.v.additional_kwargs.v[k] = OldKwargsOf(oc)[k]

C10_Witness ==
    /\ reply.kind = "json"
    /\ Len(resp.data.choices) = 2
    /\ "extra" \in DOMAIN OldKwargsOf(resp.data.choices[1])
    /\ resp.data.choices[1].message.v.tool_calls.has
    /\ ~ReplyKwargs["parsed"].null

====
